---- MODULE Spec2Model ----
(***************************************************************************)
(* Model of the engineering core of the identity-generator web app:        *)
(*   - src/lib/flagCache.ts      the LRU cache of flag icon components     *)
(*   - src/unnamed/part_001      the debounce hooks (hooks/useDebounce)    *)
(*                                                                         *)
(* JavaScript runs these modules on one event loop: every action below is  *)
(* one synchronous run-to-completion step (a call up to its first await,   *)
(* the continuation of an await, a timer callback, a React commit).        *)
(***************************************************************************)
EXTENDS Integers, Sequences, FiniteSets, TLC

VARIABLES
    flagCache,        \* Map<string, FlagComponentType>: sequence of [code, comp], in Map order
    loadingPromises,  \* Map<string, Promise>: function code -> id of the promise stored
    loads,            \* the dynamic imports still unsettled: function load id -> code
    ret,              \* what the step just taken returned / resolved to
    touched,          \* history: the cached codes, by the time of their last hit or insertion
    pc,               \* position of the calling page: "prelude", "preclear", "warm", "warming"
    warmTarget,       \* how many codes the caller loads one after another before it goes concurrent
    warmNext,         \* the next code of that sequence
    hist,             \* history: what the calls outside the warm-up returned, oldest first
    \* hooks/useDebounce: one component that uses one of the hooks
    hook,             \* which hook the component uses
    mounted,          \* FALSE once the component is unmounted
    value,            \* the hook's argument `value` at the last render
    delay,            \* the hook's argument `delay` at the last render
    debouncedValue,   \* useState: debouncedValue
    isPending,        \* useState: isPending (useDebounceWithPending)
    timerRef,         \* useRef: timerRef.current, a timer id or NoTimer
    timers,           \* the timers set and neither fired nor cleared: records [id, due, val]
    now,              \* the clock, in ticks
    lastUpdate,       \* history: the time of the last render with a new value or delay
    base,             \* history: debouncedValue when the current burst of updates began
    changes,          \* history: how often debouncedValue changed since the last update
    firedAt,          \* history: when the first timer callback since the last update ran
    burst,            \* history: the number of updates of the current burst (3 for more)
    \* hooks/useDebounce, useDebouncedCallback: one component that uses the hook
    cbMounted,        \* FALSE once the component is unmounted
    cbDelay,          \* the hook's argument `delay` at the last render
    callbackRef,      \* useRef: callbackRef.current, the callback of the last render
    cbTimerRef,       \* useRef: timerRef.current, a timer id or NoTimer
    cbTimers,         \* the timers set and neither fired nor cleared: records [id, due, val]
    cbNow,            \* the clock, in ticks
    lastCall,         \* history: the time of the last call of the debounced function
    lastArgs,         \* history: the arguments of that call
    lastDelay,        \* history: the delay of the debounced function that was called
    calls,            \* history: the number of calls of the current burst (3 for more)
    invoked,          \* history: the invocations of the callback since the last call
    lateInvoked,      \* history: TRUE once the callback was invoked after the unmount
    \* IP detection: detectIp (lib/__tests__/ipFallback.test.ts) and initializeApp (app/page.tsx)
    ipImpl,           \* which of the two runs
    ipPc,             \* where the async function waits: "race", "json", or "done"
    fetchState,       \* the fetch promise: "pending", "resolved" or "rejected"
    response,         \* the body of the response, once the fetch resolved
    timeoutPending,   \* TRUE until the timer of timeoutPromise fires
    ipNow,            \* the clock, in ticks of 1000 ms
    result,           \* what detectIp resolved to
    ipInfo,           \* useState: ipInfo
    selectedCountry,  \* useState: selectedCountry
    isInitialized,    \* useState: isInitialized
    isMounted,        \* the isMounted flag of the effect
    outcome,          \* history: how the detection ended
    settledAt,        \* history: when the async function finished, a set of at most one time
    \* lib/backgroundContext.tsx
    storage,          \* what localStorage holds under BG_CACHE_KEY
    bgNow,            \* Date.now(), in hours
    bgRet,            \* the last call of the module and what it returned
    validCheck,       \* the last call of isCacheValid: its arguments and its result
    written,          \* history: the last setCachedBackground since the last clear
    \* lib/identityData.ts
    saved,            \* what localStorage holds under STORAGE_KEY
    nextId,           \* the number of identities created so far (ids are unique)
    idRet,            \* the last call of the module and what it returned
    \* lib/flagCache.ts, preloadTopFlags
    preload,          \* where the warm-up of preloadTopFlags is: not called, scheduled, or run
    \* app/page.tsx, DomainList
    allDomains,       \* the prop allDomains: the domains 1 .. allDomains
    searchQuery,      \* useState: searchQuery
    filteredQuery,    \* useState: filteredQuery, the debounced query
    visibleCount,     \* useState: visibleCount
    debounceTimer,    \* the pending timer of the search debounce: the set of the query it will commit
    dlRet,            \* the last step of the component and what it did
    \* app/page.tsx, the save button of the main page
    userEmail,        \* useState: userInfo.email, the email of the identity on display
    saveStatus,       \* useState: saveStatus
    isSaved,          \* useState: isSaved
    saveTimers,       \* the pending 300 ms timers of handleSaveIdentity: records [due, email, click]
    statusTimer,      \* the pending 2000 ms timer of saveTimerRef: the set of its due time
    saveClicks,       \* the number of save clicks that started a save
    saveNow,          \* the clock, in ticks of 100 ms
    saveRet           \* the last step of the page

flagVars == <<flagCache, loadingPromises, loads, ret, touched>>
envVars == <<pc, warmTarget, warmNext>>
histVars == <<hist>>
debounceVars == <<hook, mounted, value, delay, debouncedValue, isPending, timerRef, timers, now>>
debounceHist == <<lastUpdate, base, changes, firedAt, burst>>
callbackVars == <<cbMounted, cbDelay, callbackRef, cbTimerRef, cbTimers, cbNow>>
callbackHist == <<lastCall, lastArgs, lastDelay, calls, invoked, lateInvoked>>
ipVars == <<ipImpl, ipPc, fetchState, response, timeoutPending, ipNow, result, ipInfo,
           selectedCountry, isInitialized, isMounted>>
ipHist == <<outcome, settledAt>>
bgVars == <<storage, bgNow, bgRet, validCheck, written>>
idVars == <<saved, nextId, idRet>>
preloadVars == <<preload>>
dlVars == <<allDomains, searchQuery, filteredQuery, visibleCount, debounceTimer, dlRet>>
saveVars == <<userEmail, saveStatus, isSaved, saveTimers, statusTimer, saveClicks, saveNow, saveRet>>
notFlagVars == <<debounceVars, debounceHist, callbackVars, callbackHist, ipVars, ipHist, bgVars,
                 idVars,
                 preloadVars,
                 dlVars,
                 saveVars>>
notDebounceVars == <<flagVars, envVars, histVars, callbackVars, callbackHist, ipVars, ipHist, bgVars,
                     idVars,
                     preloadVars,
                     dlVars,
                     saveVars>>
notCallbackVars == <<flagVars, envVars, histVars, debounceVars, debounceHist, ipVars, ipHist, bgVars,
                     idVars,
                     preloadVars,
                     dlVars,
                     saveVars>>
notIpVars == <<flagVars, envVars, histVars, debounceVars, debounceHist, callbackVars, callbackHist,
               bgVars, idVars,
               preloadVars,
               dlVars,
               saveVars>>
notBgVars == <<flagVars, envVars, histVars, debounceVars, debounceHist, callbackVars, callbackHist,
               ipVars, ipHist, idVars,
               preloadVars,
               dlVars,
               saveVars>>
notIdVars == <<flagVars, envVars, histVars, debounceVars, debounceHist, callbackVars, callbackHist,
               ipVars, ipHist, bgVars,
               preloadVars,
               dlVars,
               saveVars>>
notPreloadVars == <<envVars, histVars, debounceVars, debounceHist, callbackVars, callbackHist, ipVars,
                    ipHist, bgVars, idVars,
                    dlVars,
                    saveVars>>
notDlVars == <<flagVars, envVars, histVars, debounceVars, debounceHist, callbackVars, callbackHist, ipVars, ipHist, bgVars, idVars, preloadVars,
               saveVars>>
notSaveVars == <<flagVars, envVars, histVars, debounceVars, debounceHist, callbackVars, callbackHist, ipVars, ipHist, bgVars, preloadVars, dlVars>>
vars == <<flagVars, envVars, histVars, debounceVars, debounceHist, callbackVars, callbackHist,
          ipVars, ipHist, bgVars, idVars,
          preloadVars,
          dlVars,
          saveVars>>

----------------------------------------------------------------------------
(* Constants of src/lib/flagCache.ts and bounds of the model *)

MAX_CACHE_SIZE == 30

\* number of flag codes beyond the capacity that callers may ask for
NumNew == 2
\* number of dynamic imports that may be unsettled at the same time
MaxInFlight == 2
\* number of calls outside the warm-up whose results the history keeps
MaxHist == 3

\* country codes are opaque strings; they are numbered here. FlagCodes have an
\* export in country-flag-icons/react/3x2, NoFlagCode (such as 'ZZ') has none.
FlagCodes == 1 .. (MAX_CACHE_SIZE + 1 + NumNew)
NoFlagCode == 0
Codes == FlagCodes \cup {NoFlagCode}

\* the caller warms the cache with 0, 29 or 31 codes before it goes concurrent
WarmTargets == {0, MAX_CACHE_SIZE - 1, MAX_CACHE_SIZE + 1}

LoadIds == 1 .. MaxInFlight

\* the code at the head of the cache when the warm-up ends: 1, or 2 after 31 loads
OldestWarmed == IF warmTarget > MAX_CACHE_SIZE THEN warmTarget - MAX_CACHE_SIZE + 1 ELSE 1

\* the codes the concurrent callers ask for: a code without a flag, the oldest code
\* of the warmed cache, and NumNew codes that were never loaded
CallCodes == {NoFlagCode, OldestWarmed} \cup ((warmTarget + 1) .. (warmTarget + NumNew))

Null == 0
Undefined == 0

\* flags[countryCode]: the module's export of that name, a function component, or undefined
flags(code) == IF code \in FlagCodes THEN 100 + code ELSE Undefined

\* FlagComponent && typeof FlagComponent === 'function'
IsFunctionComponent(c) == c # Undefined /\ c > 100

----------------------------------------------------------------------------
(* Map helpers *)

RECURSIVE SeqWithout(_, _)
SeqWithout(s, code) ==
    IF s = <<>> THEN <<>>
    ELSE IF Head(s).code = code THEN SeqWithout(Tail(s), code)
    ELSE <<Head(s)>> \o SeqWithout(Tail(s), code)

RECURSIVE CodesWithout(_, _)
CodesWithout(s, code) ==
    IF s = <<>> THEN <<>>
    ELSE IF Head(s) = code THEN CodesWithout(Tail(s), code)
    ELSE <<Head(s)>> \o CodesWithout(Tail(s), code)

\* Array.from(flagCache.keys())
getCachedCodes == [i \in 1 .. Len(flagCache) |-> flagCache[i].code]

\* flagCache.size
getCacheSize == Len(flagCache)

\* flagCache.has(countryCode)
isCached(code) == \E i \in 1 .. Len(flagCache) : flagCache[i].code = code

\* flagCache.get(countryCode)
MapGet(m, code) ==
    IF \E i \in 1 .. Len(m) : m[i].code = code
    THEN (CHOOSE e \in {m[i] : i \in 1 .. Len(m)} : e.code = code).comp
    ELSE Undefined

\* flagCache.delete(countryCode)
MapDelete(m, code) == SeqWithout(m, code)

\* flagCache.set(countryCode, comp): a present key keeps its place in the Map order
MapSet(m, code, comp) ==
    IF \E i \in 1 .. Len(m) : m[i].code = code
    THEN [i \in 1 .. Len(m) |-> IF m[i].code = code THEN [code |-> code, comp |-> comp] ELSE m[i]]
    ELSE Append(m, [code |-> code, comp |-> comp])

\* loadingPromises.delete(countryCode)
PromisesWithout(p, code) == [c \in (DOMAIN p) \ {code} |-> p[c]]

EmptyMap == [c \in {} |-> 0]

NoRet == [op |-> "none", code |-> NoFlagCode, kind |-> "none", promise |-> 0, value |-> Null, evicted |-> {}, state |-> "none"]

----------------------------------------------------------------------------
(* src/lib/flagCache.ts *)

\* the smallest promise id not in use
NewLoadId == CHOOSE id \in LoadIds \ DOMAIN loads : \A j \in LoadIds \ DOMAIN loads : id <= j

CacheAfterHitNotMoved(m, code, cached) == m

CacheAfterHitDeleted(m, code, cached) == MapDelete(m, code)

\* lines 38-39: flagCache.delete(countryCode); flagCache.set(countryCode, cached)
CacheAfterHit(m, code, cached) == MapSet(MapDelete(m, code), code, cached)

CacheAfterEvictionLate(m) ==
    IF Len(m) > MAX_CACHE_SIZE /\ Len(m) > 0 THEN MapDelete(m, Head(m).code) ELSE m

\* lines 57-62: if the cache is full, delete the first key of the Map
CacheAfterEviction(m) ==
    IF Len(m) >= MAX_CACHE_SIZE /\ Len(m) > 0 THEN MapDelete(m, Head(m).code) ELSE m

\* lines 55-66: the successful branch of the load
CacheAfterLoad(m, code, comp) == MapSet(CacheAfterEviction(m), code, comp)

PromisesAfterSettleKept(p, code) == p

\* line 73, in finally: loadingPromises.delete(countryCode)
PromisesAfterSettle(p, code) == PromisesWithout(p, code)

LoadResultUncaught(imported, FlagComponent) ==
    IF ~imported THEN [state |-> "rejected", value |-> Null]
    ELSE IF IsFunctionComponent(FlagComponent) THEN [state |-> "fulfilled", value |-> FlagComponent]
    ELSE [state |-> "fulfilled", value |-> Null]

\* lines 51-70: what the load promise settles to; `catch { return null }` when the import throws
LoadResult(imported, FlagComponent) ==
    IF ~imported THEN [state |-> "fulfilled", value |-> Null]
    ELSE IF IsFunctionComponent(FlagComponent) THEN [state |-> "fulfilled", value |-> FlagComponent]
    ELSE [state |-> "fulfilled", value |-> Null]

\* line 77: loadingPromises.set(countryCode, loadPromise)
PromisesAfterStart(p, code, id) == [c \in (DOMAIN p) \cup {code} |-> IF c = code THEN id ELSE p[c]]

\* the codes of m that are not in n any more
Dropped(m, n) == {m[i].code : i \in 1 .. Len(m)} \ {n[i].code : i \in 1 .. Len(n)}

RECURSIVE CodesWithoutAll(_, _)
CodesWithoutAll(s, gone) ==
    IF s = <<>> THEN <<>>
    ELSE IF Head(s) \in gone THEN CodesWithoutAll(Tail(s), gone)
    ELSE <<Head(s)>> \o CodesWithoutAll(Tail(s), gone)

\* loadFlagIcon(countryCode), up to its return: a hit, the pending promise, or a new load
\* that runs up to `await import(...)`
LoadFlagIcon(code) ==
    LET cached == MapGet(flagCache, code) IN
    IF cached # Undefined
    THEN /\ flagCache' = CacheAfterHit(flagCache, code, cached)
         /\ touched' = Append(CodesWithout(touched, code), code)
         /\ ret' = [op |-> "loadFlagIcon", code |-> code, kind |-> "hit", promise |-> 0,
                    value |-> cached, evicted |-> {}, state |-> "none"]
         /\ UNCHANGED <<loadingPromises, loads>>
    ELSE IF code \in DOMAIN loadingPromises
    THEN /\ ret' = [op |-> "loadFlagIcon", code |-> code, kind |-> "pending",
                    promise |-> loadingPromises[code], value |-> Null, evicted |-> {}, state |-> "none"]
         /\ UNCHANGED <<flagCache, touched, loadingPromises, loads>>
    ELSE /\ LoadIds \ DOMAIN loads # {}
         /\ loads' = [id \in (DOMAIN loads) \cup {NewLoadId} |->
                        IF id = NewLoadId THEN code ELSE loads[id]]
         /\ loadingPromises' = PromisesAfterStart(loadingPromises, code, NewLoadId)
         /\ ret' = [op |-> "loadFlagIcon", code |-> code, kind |-> "started",
                    promise |-> NewLoadId, value |-> Null, evicted |-> {}, state |-> "none"]
         /\ UNCHANGED <<flagCache, touched>>

\* lines 50-75: the continuation of `await import(...)` of load id; imported = FALSE when
\* the import throws
LoadSettles(id, imported) ==
    /\ id \in DOMAIN loads
    /\ LET code == loads[id]
           FlagComponent == IF imported THEN flags(code) ELSE Undefined
           stored == imported /\ IsFunctionComponent(FlagComponent)
           after == IF stored THEN CacheAfterLoad(flagCache, code, FlagComponent) ELSE flagCache
       IN /\ flagCache' = after
          /\ touched' = IF stored
                        THEN Append(CodesWithoutAll(touched, Dropped(flagCache, after) \cup {code}), code)
                        ELSE touched
          /\ loadingPromises' = PromisesAfterSettle(loadingPromises, code)
          /\ loads' = [j \in (DOMAIN loads) \ {id} |-> loads[j]]
          /\ ret' = [op |-> "settle", code |-> code,
                     kind |-> IF stored THEN "component" ELSE IF imported THEN "missing" ELSE "threw",
                     promise |-> id,
                     value |-> LoadResult(imported, FlagComponent).value,
                     evicted |-> Dropped(flagCache, after),
                     state |-> LoadResult(imported, FlagComponent).state]

ClearCacheKeepsPending ==
    /\ flagCache' = <<>>
    /\ loadingPromises' = loadingPromises
    /\ touched' = <<>>
    /\ ret' = [op |-> "clearCache", code |-> NoFlagCode, kind |-> "none", promise |-> 0,
               value |-> Null, evicted |-> {}, state |-> "none"]
    /\ UNCHANGED loads

\* clearCache()
ClearCache ==
    /\ flagCache' = <<>>
    /\ loadingPromises' = EmptyMap
    /\ touched' = <<>>
    /\ ret' = [op |-> "clearCache", code |-> NoFlagCode, kind |-> "none", promise |-> 0,
               value |-> Null, evicted |-> {}, state |-> "none"]
    /\ UNCHANGED loads

\* line 17: TOP_COUNTRIES = ['US', 'CN', 'HK', 'TW', 'JP'], as numbered codes
TOP_COUNTRIES == <<1, 2, 3, 4, 5>>

\* the promise ids of the page that warms up: its own loads and those of five keys
PreloadIds == 1 .. (MaxInFlight + Len(TOP_COUNTRIES))

\* the Maps of the module and the unsettled imports, as one value
FlagState == [cache |-> flagCache, promises |-> loadingPromises, loads |-> loads, touched |-> touched]

\* lines 31-79: one loadFlagIcon(code) of the forEach, up to its return
LoadFlagIconIn(st, code) ==
    LET cached == MapGet(st.cache, code)
        free == PreloadIds \ DOMAIN st.loads
        id == CHOOSE i \in free : \A j \in free : i <= j
    IN IF cached # Undefined
       THEN [st EXCEPT !.cache = CacheAfterHit(st.cache, code, cached),
                       !.touched = Append(CodesWithout(st.touched, code), code)]
       ELSE IF code \in DOMAIN st.promises
       THEN st
       ELSE [st EXCEPT !.loads = [i \in (DOMAIN st.loads) \cup {id} |->
                                    IF i = id THEN code ELSE st.loads[i]],
                       !.promises = PromisesAfterStart(st.promises, code, id)]

\* lines 87-89: TOP_COUNTRIES.forEach(code => loadFlagIcon(code))
Preload(st, codes) ==
    LET RECURSIVE Each(_, _)
        Each(s, cs) == IF cs = <<>> THEN s ELSE Each(LoadFlagIconIn(s, Head(cs)), Tail(cs))
    IN Each(st, codes)

\* lines 92-99: requestIdleCallback(preload, { timeout: 2000 }) where the browser has it,
\* setTimeout(preload, 100) otherwise
Scheduled(hasIdleCallback) == IF hasIdleCallback THEN "requestIdleCallback" ELSE "setTimeout"

\* lines 86-100: preloadTopFlags(), up to its return
PreloadTopFlags(hasIdleCallback) ==
    /\ preload = "none"
    /\ preload' = Scheduled(hasIdleCallback)
    /\ UNCHANGED flagVars

\* lines 87-89: the callback `preload`, run by the idle callback or the timer
PreloadRuns ==
    /\ preload \in {"requestIdleCallback", "setTimeout"}
    /\ LET st == Preload(FlagState, TOP_COUNTRIES)
       IN /\ flagCache' = st.cache
          /\ loadingPromises' = st.promises
          /\ loads' = st.loads
          /\ touched' = st.touched
    /\ ret' = [op |-> "preload", code |-> NoFlagCode, kind |-> "none", promise |-> 0,
               value |-> Null, evicted |-> {}, state |-> "none"]
    /\ preload' = "ran"

PreloadUnused == preload = "unused"

----------------------------------------------------------------------------
(* src/unnamed/part_001 (hooks/useDebounce): useDebounce and               *)
(* useDebounceWithPending, used by one component.  A render and the effects *)
(* it schedules are one step, as under act() in the tests; time advances in *)
(* ticks and a timer's callback runs when it is due, before anything else.  *)

\* number of distinct values the component passes to the hook
NumValues == 3
\* the longest delay, in ticks
MaxDelay == 2
\* the clock stops here
MaxTime == 6
\* number of timer ids
MaxTimers == 2

Values == 1 .. NumValues
Delays == 1 .. MaxDelay
TimerIds == 1 .. MaxTimers
Hooks == {"useDebounce", "useDebounceWithPending"}

\* timerRef.current === null
NoTimer == 0

\* clearTimeout(id)
ClearTimeout(ts, id) == {t \in ts : t.id # id}

\* the id setTimeout returns: one that no live timer and no reference holds
FreeTimerIds(ts, ref) == TimerIds \ ({t.id : t \in ts} \cup {ref})
NewTimerId(ts, ref) == CHOOSE id \in FreeTimerIds(ts, ref) : \A j \in FreeTimerIds(ts, ref) : id <= j

SetTimeoutNever(ts, ref, v, d) == ts

\* setTimeout(() => { setDebouncedValue(value); ... }, delay)
SetTimeout(ts, ref, v, d) == ts \cup {[id |-> NewTimerId(ts, ref), due |-> now + d, val |-> v]}

TimersAfterCleanupLeaked(ts, ref) == ts

\* lines 42-47 and 122-127, the effect's cleanup: if (timerRef.current) clearTimeout(timerRef.current)
TimersAfterCleanup(ts, ref) == IF ref # NoTimer THEN ClearTimeout(ts, ref) ELSE ts

\* lines 32-34 and 108-110, the effect's first statement, run after the cleanup has
\* set timerRef.current to null
TimersAfterEffectClear(ts, ref) == IF ref # NoTimer THEN ClearTimeout(ts, ref) ELSE ts

TimersAfterEffectKeepsOld(v, d) == SetTimeout(timers, timerRef, v, d)

\* lines 30-48 and 107-128: the cleanup of the last effect, then the effect with the
\* arguments v and d, in a render where debouncedValue is dv
TimersAfterEffect(v, d) ==
    SetTimeout(TimersAfterEffectClear(TimersAfterCleanup(timers, timerRef), NoTimer), NoTimer, v, d)

RefAfterEffect == NewTimerId(TimersAfterEffectClear(TimersAfterCleanup(timers, timerRef), NoTimer), NoTimer)

PendingAfterEffectNever(v, dv, pending) == pending

\* lines 113-115: if (value !== debouncedValue) setIsPending(true)
PendingAfterEffect(v, dv, pending) ==
    IF hook = "useDebounceWithPending" /\ v # dv THEN TRUE ELSE pending

Due == {t \in timers : t.due <= now}

\* the component renders with a new value or delay: the dependencies [value, delay]
\* changed, so the cleanup and the effect run
Rerender(v, d) ==
    /\ mounted
    /\ v # value \/ d # delay
    /\ Due = {}
    /\ FreeTimerIds(TimersAfterCleanup(timers, timerRef), NoTimer) # {}
    /\ value' = v
    /\ delay' = d
    /\ timers' = TimersAfterEffect(v, d)
    /\ timerRef' = RefAfterEffect
    /\ isPending' = PendingAfterEffect(v, debouncedValue, isPending)
    /\ lastUpdate' = now
    /\ base' = IF now - lastUpdate < delay THEN base ELSE debouncedValue
    /\ burst' = IF now - lastUpdate < delay THEN (IF burst < 3 THEN burst + 1 ELSE 3) ELSE 1
    /\ changes' = 0
    /\ firedAt' = {}
    /\ UNCHANGED <<hook, mounted, debouncedValue, now>>

\* lines 37-39 and 117-120: the callback of timer t runs: setDebouncedValue(value) and,
\* in useDebounceWithPending, setIsPending(false); there debouncedValue is a dependency
\* of the effect, which runs again when it changed
TimerFires(t) ==
    /\ t \in Due
    /\ IF ~mounted
       THEN \* a state update of an unmounted component is ignored
            /\ timers' = timers \ {t}
            /\ UNCHANGED <<debouncedValue, timerRef, isPending, changes, firedAt>>
       ELSE /\ debouncedValue' = t.val
            /\ IF hook = "useDebounceWithPending" /\ t.val # debouncedValue
               THEN /\ FreeTimerIds(timers \ {t}, NoTimer) # {}
                    /\ LET live == timers \ {t}
                           cleaned == TimersAfterEffectClear(
                                          TimersAfterCleanup(live, timerRef), NoTimer)
                       IN /\ timers' = SetTimeout(cleaned, NoTimer, value, delay)
                          /\ timerRef' = NewTimerId(cleaned, NoTimer)
                    /\ isPending' = PendingAfterEffect(value, t.val, FALSE)
               ELSE /\ timers' = timers \ {t}
                    /\ timerRef' = timerRef
                    /\ isPending' = IF hook = "useDebounceWithPending" THEN FALSE ELSE isPending
            /\ changes' = IF t.val # debouncedValue THEN changes + 1 ELSE changes
            /\ firedAt' = IF firedAt = {} THEN {now} ELSE firedAt
    /\ UNCHANGED <<hook, mounted, value, delay, now, lastUpdate, base, burst>>

\* one tick passes; no timer is left due
Tick ==
    /\ now < MaxTime
    /\ Due = {}
    /\ now' = now + 1
    /\ UNCHANGED <<hook, mounted, value, delay, debouncedValue, isPending, timerRef, timers>>
    /\ UNCHANGED debounceHist

\* the component unmounts: the cleanup of the last effect runs
Unmount ==
    /\ mounted
    /\ Due = {}
    /\ mounted' = FALSE
    /\ timers' = TimersAfterCleanup(timers, timerRef)
    /\ timerRef' = NoTimer
    /\ UNCHANGED <<hook, value, delay, debouncedValue, isPending, now>>
    /\ UNCHANGED debounceHist

\* the first render: useState(value), useState(false), useRef(null), then the effect
DebounceInit ==
    /\ hook \in Hooks
    /\ mounted = TRUE
    /\ value \in Values
    /\ delay \in Delays
    /\ debouncedValue = value
    /\ isPending = FALSE
    /\ timerRef = 1
    /\ timers = {[id |-> 1, due |-> delay, val |-> value]}
    /\ now = 0
    /\ lastUpdate = 0
    /\ base = value
    /\ changes = 0
    /\ firedAt = {}
    /\ burst = 1

\* no component uses the hooks
DebounceUnused ==
    /\ hook = "useDebounce"
    /\ mounted = FALSE
    /\ value = 1
    /\ delay = 1
    /\ debouncedValue = 1
    /\ isPending = FALSE
    /\ timerRef = NoTimer
    /\ timers = {}
    /\ now = 0
    /\ lastUpdate = 0
    /\ base = 1
    /\ changes = 0
    /\ firedAt = {}
    /\ burst = 0

----------------------------------------------------------------------------
(* useDebouncedCallback (lines 62-92).  The component renders with a        *)
(* callback and a delay; the function the hook returns may be called by     *)
(* whoever holds it, at any time                                            *)

\* number of callback functions the component may pass
NumCallbacks == 2
\* number of argument lists the debounced function may be called with
NumArgs == 2

Callbacks == 1 .. NumCallbacks
Args == 1 .. NumArgs

CbDue == {t \in cbTimers : t.due <= cbNow}

\* lines 70-72: a render with the callback cb and the delay d; the effect stores cb
CbRender(cb, d) ==
    /\ cbMounted
    /\ cb # callbackRef \/ d # cbDelay
    /\ CbDue = {}
    /\ callbackRef' = cb
    /\ cbDelay' = d
    /\ UNCHANGED <<cbMounted, cbTimerRef, cbTimers, cbNow>>
    /\ UNCHANGED callbackHist

CbTimersAfterCallKeepsOld(ts, ref) == ts

\* lines 84-86: if (timerRef.current) clearTimeout(timerRef.current)
CbTimersAfterCallClear(ts, ref) == IF ref # NoTimer THEN ClearTimeout(ts, ref) ELSE ts

\* lines 83-91: the debounced function of the last render is called with args
DebouncedCall(args) ==
    /\ CbDue = {}
    /\ LET cleaned == CbTimersAfterCallClear(cbTimers, cbTimerRef)
       IN /\ FreeTimerIds(cleaned, cbTimerRef) # {}
          /\ cbTimerRef' = NewTimerId(cleaned, cbTimerRef)
          /\ cbTimers' = cleaned \cup {[id |-> NewTimerId(cleaned, cbTimerRef),
                                        due |-> cbNow + cbDelay, val |-> args]}
    /\ calls' = IF cbNow - lastCall < cbDelay /\ calls > 0
                THEN (IF calls < 3 THEN calls + 1 ELSE 3) ELSE 1
    /\ lastCall' = cbNow
    /\ lastArgs' = args
    /\ lastDelay' = cbDelay
    /\ invoked' = <<>>
    /\ UNCHANGED <<cbMounted, cbDelay, callbackRef, cbNow, lateInvoked>>

\* lines 88-90: the callback of timer t runs callbackRef.current(...args)
CbTimerFires(t) ==
    /\ t \in CbDue
    /\ cbTimers' = cbTimers \ {t}
    /\ invoked' = IF Len(invoked) < 2
                  THEN Append(invoked, [at |-> cbNow, args |-> t.val, callback |-> callbackRef])
                  ELSE invoked
    /\ lateInvoked' = (lateInvoked \/ ~cbMounted)
    /\ UNCHANGED <<cbMounted, cbDelay, callbackRef, cbTimerRef, cbNow, lastCall, lastArgs, lastDelay, calls>>

CbTimersAfterUnmountLeaked(ts, ref) == ts

\* lines 75-81, the cleanup: if (timerRef.current) clearTimeout(timerRef.current)
CbTimersAfterUnmount(ts, ref) == IF ref # NoTimer THEN ClearTimeout(ts, ref) ELSE ts

\* the component unmounts: the cleanup of the effect with no dependencies runs
CbUnmount ==
    /\ cbMounted
    /\ CbDue = {}
    /\ cbMounted' = FALSE
    /\ cbTimers' = CbTimersAfterUnmount(cbTimers, cbTimerRef)
    /\ UNCHANGED <<cbDelay, callbackRef, cbTimerRef, cbNow>>
    /\ UNCHANGED callbackHist

\* one tick passes; no timer is left due
CbTick ==
    /\ cbNow < MaxTime
    /\ CbDue = {}
    /\ cbNow' = cbNow + 1
    /\ UNCHANGED <<cbMounted, cbDelay, callbackRef, cbTimerRef, cbTimers>>
    /\ UNCHANGED callbackHist

\* the first render: useRef(null), useRef(callback), the two effects
CallbackInit ==
    /\ cbMounted = TRUE
    /\ cbDelay \in Delays
    /\ callbackRef \in Callbacks
    /\ cbTimerRef = NoTimer
    /\ cbTimers = {}
    /\ cbNow = 0
    /\ lastCall = 0
    /\ lastArgs = 1
    /\ lastDelay = 1
    /\ calls = 0
    /\ invoked = <<>>
    /\ lateInvoked = FALSE

\* no component uses the hook
CallbackUnused ==
    /\ cbMounted = FALSE
    /\ cbDelay = 1
    /\ callbackRef = 1
    /\ cbTimerRef = NoTimer
    /\ cbTimers = {}
    /\ cbNow = 0
    /\ lastCall = 0
    /\ lastArgs = 1
    /\ lastDelay = 1
    /\ calls = 0
    /\ invoked = <<>>
    /\ lateInvoked = FALSE

----------------------------------------------------------------------------
(* IP detection: a fetch raced against a timeout.  detectIp is the logic as *)
(* the tests extract it (ipFallback.test.ts 32-56), initializeApp the       *)
(* effect of the main page (page.tsx 557-600).  Time is in ticks of 1000 ms *)

\* the clock stops here
MaxIpTime == 5

\* 3000 ms
TIMEOUT_MS == 3
DEFAULT_COUNTRY == "US"
\* the sentinel of ipFallback.test.ts line 22 and page.tsx line 585 ("detection failed")
DEFAULT_IP == "detection-failed"
\* the sentinel of page.tsx line 576 ("unknown")
UNKNOWN_IP == "unknown"
\* useState({ ip: '...', country: 'US' })
INITIAL_IP == "..."

\* a field the payload does not have
Missing == "undefined"
Falsy(x) == x \in {Missing, ""}
\* a || b
Or(a, b) == IF Falsy(a) THEN b ELSE a

IpImpls == {"detectIp", "initializeApp"}
PayloadIps == {Missing, "", "1.2.3.4"}
PayloadCountries == {Missing, "", "US", "CN", "ZZ"}
\* the countries getCountryConfig knows; countries[0] is the first
KnownCountries == {"US", "CN"}
NoConfig == "undefined"
getCountryConfig(code) == IF code \in KnownCountries THEN code ELSE NoConfig

\* what response.json() does: resolve with an object, resolve with null, reject, or
\* never settle
Bodies ==
    [kind : {"data"}, ip : PayloadIps, country : PayloadCountries, accurate : BOOLEAN]
    \cup [kind : {"null", "unparsable", "never"}, ip : {Missing}, country : {Missing},
          accurate : {FALSE}]
NoResponse == [kind |-> "none", ip |-> Missing, country |-> Missing, accurate |-> FALSE]
NoResult == [ip |-> Missing, country |-> Missing, isDefault |-> FALSE, settled |-> FALSE]

DetectedFlagInverted(data) ==
    [ip |-> Or(data.ip, DEFAULT_IP), country |-> Or(data.country, DEFAULT_COUNTRY),
     isDefault |-> ~(Falsy(data.ip) \/ Falsy(data.country)), settled |-> TRUE]

\* ipFallback.test.ts lines 44-48
Detected(data) ==
    [ip |-> Or(data.ip, DEFAULT_IP), country |-> Or(data.country, DEFAULT_COUNTRY),
     isDefault |-> (Falsy(data.ip) \/ Falsy(data.country)), settled |-> TRUE]

\* ipFallback.test.ts lines 50-54
Fallback == [ip |-> DEFAULT_IP, country |-> DEFAULT_COUNTRY, isDefault |-> TRUE, settled |-> TRUE]

\* page.tsx line 576
IpInfoOf(data) == [ip |-> Or(data.ip, UNKNOWN_IP), country |-> Or(data.country, DEFAULT_COUNTRY)]

\* page.tsx lines 578-581
SelectedAfter(data, selected) ==
    IF ~Falsy(data.country) /\ data.accurate /\ getCountryConfig(data.country) # NoConfig
    THEN getCountryConfig(data.country)
    ELSE selected

\* the async function finishes at this step
Finishes(how) ==
    /\ ipPc' = "done"
    /\ outcome' = how
    /\ settledAt' = {ipNow}

\* the try block completed with the parsed body `data`
Succeeds(data) ==
    /\ Finishes("data")
    /\ IF ipImpl = "detectIp"
       THEN /\ result' = Detected(data)
            /\ UNCHANGED <<ipInfo, selectedCountry, isInitialized>>
       ELSE /\ result' = result
            /\ IF isMounted
               THEN /\ ipInfo' = IpInfoOf(data)
                    /\ selectedCountry' = SelectedAfter(data, selectedCountry)
                    /\ isInitialized' = TRUE
               ELSE UNCHANGED <<ipInfo, selectedCountry, isInitialized>>

\* the catch block, then finally
Fails(how) ==
    /\ Finishes(how)
    /\ IF ipImpl = "detectIp"
       THEN /\ result' = Fallback
            /\ UNCHANGED <<ipInfo, selectedCountry, isInitialized>>
       ELSE /\ result' = result
            /\ selectedCountry' = selectedCountry
            /\ IF isMounted
               THEN /\ ipInfo' = [ip |-> DEFAULT_IP, country |-> DEFAULT_COUNTRY]
                    /\ isInitialized' = TRUE
               ELSE UNCHANGED <<ipInfo, isInitialized>>

Stays == UNCHANGED <<ipPc, result, ipInfo, selectedCountry, isInitialized, outcome, settledAt>>

RaceNeverCloses == response.kind = "none"

\* Promise.race is unsettled: the function still awaits it
RaceAwaitsBoth == ipPc = "race"

\* the fetch resolves with a response whose body is `body`; if the race is still on,
\* the function goes on to await response.json()
FetchResolves(body) ==
    /\ fetchState = "pending"
    /\ fetchState' = "resolved"
    /\ response' = body
    /\ IF RaceAwaitsBoth
       THEN /\ ipPc' = "json"
            /\ UNCHANGED <<result, ipInfo, selectedCountry, isInitialized, outcome, settledAt>>
       ELSE Stays
    /\ UNCHANGED <<ipImpl, timeoutPending, ipNow, isMounted>>

\* the fetch rejects (network failure)
FetchRejects ==
    /\ fetchState = "pending"
    /\ fetchState' = "rejected"
    /\ IF RaceAwaitsBoth THEN Fails("rejected") ELSE Stays
    /\ UNCHANGED <<ipImpl, response, timeoutPending, ipNow, isMounted>>

\* the timer of timeoutPromise fires and rejects it
TimeoutFires ==
    /\ timeoutPending
    /\ ipNow >= TIMEOUT_MS
    /\ timeoutPending' = FALSE
    /\ IF RaceAwaitsBoth THEN Fails("timeout") ELSE Stays
    /\ UNCHANGED <<ipImpl, fetchState, response, ipNow, isMounted>>

\* response.json() settles
JsonSettles ==
    /\ ipPc = "json"
    /\ response.kind # "never"
    /\ IF response.kind = "data" THEN Succeeds(response)
       ELSE Fails(response.kind)
    /\ UNCHANGED <<ipImpl, fetchState, response, timeoutPending, ipNow, isMounted>>

\* the page unmounts: the cleanup of the effect sets isMounted = false
PageUnmounts ==
    /\ ipImpl = "initializeApp"
    /\ isMounted
    /\ isMounted' = FALSE
    /\ UNCHANGED <<ipImpl, ipPc, fetchState, response, timeoutPending, ipNow, result, ipInfo,
                   selectedCountry, isInitialized>>
    /\ UNCHANGED ipHist

\* 1000 ms pass; a timer that is due fires first
IpTick ==
    /\ ipNow < MaxIpTime
    /\ ~(timeoutPending /\ ipNow >= TIMEOUT_MS)
    /\ ipNow' = ipNow + 1
    /\ UNCHANGED <<ipImpl, ipPc, fetchState, response, timeoutPending, result, ipInfo,
                   selectedCountry, isInitialized, isMounted>>
    /\ UNCHANGED ipHist

\* the function ran up to `await Promise.race([...])`: the timer is set, the fetch sent
IpInit ==
    /\ ipImpl \in IpImpls
    /\ ipPc = "race"
    /\ fetchState = "pending"
    /\ response = NoResponse
    /\ timeoutPending = TRUE
    /\ ipNow = 0
    /\ result = NoResult
    /\ ipInfo = [ip |-> INITIAL_IP, country |-> DEFAULT_COUNTRY]
    /\ selectedCountry = "US"
    /\ isInitialized = FALSE
    /\ isMounted = TRUE
    /\ outcome = "none"
    /\ settledAt = {}

\* no detection runs
IpUnused ==
    /\ ipImpl = "detectIp"
    /\ ipPc = "done"
    /\ fetchState = "rejected"
    /\ response = NoResponse
    /\ timeoutPending = FALSE
    /\ ipNow = 0
    /\ result = NoResult
    /\ ipInfo = [ip |-> INITIAL_IP, country |-> DEFAULT_COUNTRY]
    /\ selectedCountry = "US"
    /\ isInitialized = FALSE
    /\ isMounted = FALSE
    /\ outcome = "none"
    /\ settledAt = {}

----------------------------------------------------------------------------
(* lib/backgroundContext.tsx: the background url cached in localStorage.    *)
(* Time is in hours                                                         *)

\* the clock stops here
MaxBgTime == 50
\* number of background urls
NumUrls == 2

\* 24 * 60 * 60 * 1000 ms
BG_EXPIRE_TIME == 24
BG_CACHE_VERSION == "v1"

Urls == 1 .. NumUrls
\* the return value null
NullUrl == 0
Versions == {BG_CACHE_VERSION, "v0"}

\* what the storage may hold: no entry, the empty string, text that JSON.parse rejects,
\* the text "null", or the text of a record
Absent == [kind |-> "absent", url |-> NullUrl, timestamp |-> 0, version |-> ""]
EmptyText == [kind |-> "empty", url |-> NullUrl, timestamp |-> 0, version |-> ""]
Unparsable == [kind |-> "unparsable", url |-> NullUrl, timestamp |-> 0, version |-> ""]
NullText == [kind |-> "null", url |-> NullUrl, timestamp |-> 0, version |-> ""]
Record(u, t, v) == [kind |-> "record", url |-> u, timestamp |-> t, version |-> v]

\* the timestamps of the records that the storage may hold when the page opens, at
\* time 0: older than 24 h, exactly 24 h old, younger, and in the future
InitStamps == {0 - BG_EXPIRE_TIME - 1, 0 - BG_EXPIRE_TIME, 1 - BG_EXPIRE_TIME, 0, MaxBgTime + 10}
InitStorage ==
    {Absent, EmptyText, Unparsable, NullText}
    \cup {Record(u, t, v) : u \in Urls, t \in InitStamps, v \in Versions}

isCacheValidInclusive(cache, t) ==
    IF cache.kind = "null" THEN FALSE
    ELSE IF cache.version # BG_CACHE_VERSION THEN FALSE
    ELSE t - cache.timestamp <= BG_EXPIRE_TIME

\* lines 30-39
isCacheValid(cache, t) ==
    IF cache.kind = "null" THEN FALSE
    ELSE IF cache.version # BG_CACHE_VERSION THEN FALSE
    ELSE t - cache.timestamp < BG_EXPIRE_TIME

StorageAfterValidReadRestamped(s) == [s EXCEPT !.timestamp = bgNow]

\* lines 53-58: a valid record is returned; nothing is written
StorageAfterValidRead(s) == s

NoBgRet == [op |-> "none", value |-> NullUrl]

\* lines 44-68: getCachedBackground()
GetCachedBackground ==
    /\ IF storage.kind \in {"absent", "empty"}
       THEN \* line 48: if (!cached) return null
            /\ storage' = storage
            /\ bgRet' = [op |-> "get", value |-> NullUrl]
       ELSE IF storage.kind = "unparsable"
       THEN \* JSON.parse throws: lines 59-67
            /\ storage' = Absent
            /\ bgRet' = [op |-> "get", value |-> NullUrl]
       ELSE IF ~isCacheValid(storage, bgNow)
       THEN \* lines 53-56
            /\ storage' = Absent
            /\ bgRet' = [op |-> "get", value |-> NullUrl]
       ELSE /\ storage' = StorageAfterValidRead(storage)
            /\ bgRet' = [op |-> "get", value |-> storage.url]
    /\ UNCHANGED <<bgNow, validCheck, written>>

StorageAfterFailedWriteCleared(s) == Absent

\* lines 82-84: setItem threw, nothing was written
StorageAfterFailedWrite(s) == s

WrittenRecordKeepsStamp(url) ==
    Record(url, IF storage.kind = "record" THEN storage.timestamp ELSE bgNow, BG_CACHE_VERSION)

\* lines 76-80: { url, timestamp: Date.now(), version: BG_CACHE_VERSION }
WrittenRecord(url) == Record(url, bgNow, BG_CACHE_VERSION)

NoWrite == [url |-> NullUrl, at |-> 0, over |-> "none", ok |-> FALSE]

\* lines 73-85: setCachedBackground(url); `stored` is FALSE when setItem throws
SetCachedBackground(url, stored) ==
    /\ storage' = IF stored THEN WrittenRecord(url)
                  ELSE StorageAfterFailedWrite(storage)
    /\ bgRet' = [op |-> "set", value |-> NullUrl]
    /\ written' = [url |-> url, at |-> bgNow, ok |-> stored,
                   over |-> IF storage.kind # "record" THEN storage.kind
                            ELSE IF isCacheValid(storage, bgNow) THEN "valid" ELSE "invalid"]
    /\ UNCHANGED <<bgNow, validCheck>>

\* lines 90-97: clearBackgroundCache()
ClearBackgroundCache ==
    /\ storage' = Absent
    /\ bgRet' = [op |-> "clear", value |-> NullUrl]
    /\ written' = NoWrite
    /\ UNCHANGED <<bgNow, validCheck>>

\* an hour passes
BgTick ==
    /\ bgNow < MaxBgTime
    /\ bgNow' = bgNow + 1
    /\ UNCHANGED <<storage, bgRet, validCheck, written>>

\* the arguments isCacheValid is applied to
CheckStamps == (0 - 2) .. (BG_EXPIRE_TIME + 2)
CheckNows == {0, 1, BG_EXPIRE_TIME - 1, BG_EXPIRE_TIME}
CheckCaches == {NullText} \cup {Record(u, t, v) : u \in Urls, t \in CheckStamps, v \in Versions}
NoCheck == [cache |-> NullText, now |-> 0, valid |-> FALSE, done |-> FALSE]

\* a call isCacheValid(cache, t)
IsCacheValidCalled(cache, t) ==
    /\ validCheck' = [cache |-> cache, now |-> t, valid |-> isCacheValid(cache, t), done |-> TRUE]
    /\ UNCHANGED <<storage, bgNow, bgRet, written>>

\* the page opens at time 0 on whatever the storage holds
BgInit ==
    /\ storage \in InitStorage
    /\ bgNow = 0
    /\ bgRet = NoBgRet
    /\ validCheck = NoCheck
    /\ written = NoWrite

\* the module is not used
BgUnused ==
    /\ storage = Absent
    /\ bgNow = 0
    /\ bgRet = NoBgRet
    /\ validCheck = NoCheck
    /\ written = NoWrite

----------------------------------------------------------------------------
(* lib/identityData.ts: the saved identities in localStorage.  An identity  *)
(* is modelled by its id and its email, the fields the module looks at      *)

\* number of distinct emails
NumEmails == 2
\* number of identities that may be created
MaxIds == 3

Emails == 1 .. NumEmails
Identity(i, e) == [id |-> i, email |-> e]

\* what the storage may hold: no entry, the empty string, text that JSON.parse rejects,
\* JSON that is no array (an object, null), or the JSON of a list of identities
NoEntry == [kind |-> "absent", list |-> <<>>]
SavedList(l) == [kind |-> "list", list |-> l]
InitSaved ==
    {NoEntry, SavedList(<<>>)}
    \cup {[kind |-> k, list |-> <<>>] : k \in {"empty", "unparsable", "object", "null"}}

\* lines 24-32: getSavedIdentities(): [] when there is no text or JSON.parse throws,
\* else whatever JSON.parse returns
getSavedIdentities(s) ==
    IF s.kind \in {"absent", "empty", "unparsable"} THEN SavedList(<<>>) ELSE s

\* identities.unshift, identities.filter and identities.some exist only on arrays
IsArray(parsed) == parsed.kind = "list"

Without(l, id) == SelectSeq(l, LAMBDA item : item.id # id)
Some(l, email) == \E i \in 1 .. Len(l) : l[i].email = email

NoIdRet == [op |-> "none", threw |-> FALSE, list |-> <<>>, found |-> FALSE]
Threw(op) == [op |-> op, threw |-> TRUE, list |-> <<>>, found |-> FALSE]

\* lines 37-44: saveIdentities(identities); `stored` is FALSE when setItem throws
saveIdentities(l, stored) == IF stored THEN SavedList(l) ELSE saved

\* a call of getSavedIdentities() by a page
GetSavedIdentities ==
    \* a value that is no array is shown as the one-element list of its kind
    /\ idRet' = [op |-> "get", threw |-> FALSE, found |-> FALSE,
                 list |-> IF IsArray(getSavedIdentities(saved))
                          THEN getSavedIdentities(saved).list ELSE <<saved.kind>>]
    /\ UNCHANGED <<saved, nextId>>

\* lines 49-59: addIdentity(identity)
AddIdentity(email, stored) ==
    /\ nextId < MaxIds
    /\ IF IsArray(getSavedIdentities(saved))
       THEN /\ saved' = saveIdentities(
                            <<Identity(nextId + 1, email)>> \o getSavedIdentities(saved).list,
                            stored)
            /\ idRet' = [op |-> "add", threw |-> FALSE, found |-> FALSE,
                         list |-> <<Identity(nextId + 1, email)>>]
            /\ nextId' = nextId + 1
       ELSE \* identities.unshift is not a function: TypeError
            /\ idRet' = Threw("add")
            /\ UNCHANGED <<saved, nextId>>

\* lines 64-68: removeIdentity(id)
RemoveIdentity(id, stored) ==
    /\ IF IsArray(getSavedIdentities(saved))
       THEN /\ saved' = saveIdentities(Without(getSavedIdentities(saved).list, id), stored)
            /\ idRet' = [op |-> "remove", threw |-> FALSE, found |-> FALSE, list |-> <<>>]
       ELSE \* identities.filter is not a function: TypeError
            /\ idRet' = Threw("remove")
            /\ saved' = saved
    /\ UNCHANGED nextId

\* lines 73-76: isIdentitySaved(email)
IsIdentitySaved(email) ==
    /\ IF IsArray(getSavedIdentities(saved))
       THEN idRet' = [op |-> "isSaved", threw |-> FALSE, list |-> <<>>,
                      found |-> Some(getSavedIdentities(saved).list, email)]
       ELSE \* identities.some is not a function: TypeError
            idRet' = Threw("isSaved")
    /\ UNCHANGED <<saved, nextId>>

\* lines 81-88: clearAllIdentities()
ClearAllIdentities ==
    /\ saved' = NoEntry
    /\ idRet' = [op |-> "clearAll", threw |-> FALSE, list |-> <<>>, found |-> FALSE]
    /\ UNCHANGED nextId

IdInit ==
    /\ saved \in InitSaved
    /\ nextId = 0
    /\ idRet = NoIdRet

IdUnused ==
    /\ saved = NoEntry
    /\ nextId = 0
    /\ idRet = NoIdRet

----------------------------------------------------------------------------
(* src/app/page.tsx, GlassStylePage: the save button, generate and the      *)
(* effect that looks the displayed email up, over lib/identityData.ts.      *)
(* Time is in ticks of 100 ms; a timer's callback runs when it is due,      *)
(* before anything else                                                     *)

\* the clock stops here
MaxSaveTime == 24

\* line 535: setTimeout(..., 300)
SAVE_DELAY == 3
\* line 534: setTimeout(..., 2000)
STATUS_DELAY == 20

\* line 438: email: '' before the first identity is generated
NoEmail == 0

SaveDue == {t \in saveTimers : t.due <= saveNow}
StatusDue == {d \in statusTimer : d <= saveNow}

\* lines 539-543: the effect on [userInfo.email]: if (email) setIsSaved(isIdentitySaved(email))
SavedAfterEmailChange(email, before) ==
    IF email # NoEmail THEN Some(getSavedIdentities(saved).list, email) ELSE before

\* lines 489-505 and 612-614: generate(), from the button or from the effect on
\* selectedCountry.code, and the render that follows it
Generate(email) ==
    /\ SaveDue = {} /\ StatusDue = {}
    /\ email # userEmail
    /\ userEmail' = email
    /\ saveStatus' = "idle"
    /\ isSaved' = SavedAfterEmailChange(email, FALSE)
    /\ saveRet' = [op |-> "generate", email |-> email]
    /\ UNCHANGED <<saveTimers, statusTimer, saveClicks, saveNow>>
    /\ UNCHANGED idVars

\* lines 517-526: the identity that the timer's callback stores is the userInfo of the
\* render in which the button was clicked
SavedEmail(t) == t.email

\* lines 509-536: handleSaveIdentity(), up to its return
HandleSaveIdentity ==
    /\ SaveDue = {} /\ StatusDue = {}
    /\ saveClicks < MaxIds
    /\ IF saveStatus = "saving" \/ isSaved \/ userEmail = NoEmail
       THEN /\ saveRet' = [op |-> "ignored", email |-> userEmail]
            /\ UNCHANGED <<saveStatus, saveTimers, saveClicks>>
       ELSE /\ saveStatus' = "saving"
            /\ saveTimers' = saveTimers \cup
                    {[due |-> saveNow + SAVE_DELAY, email |-> userEmail, click |-> saveClicks + 1]}
            /\ saveClicks' = saveClicks + 1
            /\ saveRet' = [op |-> "click", email |-> userEmail]
    /\ UNCHANGED <<userEmail, isSaved, statusTimer, saveNow>>
    /\ UNCHANGED idVars

\* lines 516-535: the callback of the 300 ms timer t; timers of one delay run in the
\* order in which they were set
SaveTimerFires(t, stored) ==
    /\ t \in SaveDue
    /\ \A u \in SaveDue : t.click <= u.click
    /\ AddIdentity(SavedEmail(t), stored)
    /\ saveStatus' = "saved"
    /\ isSaved' = TRUE
    /\ saveTimers' = saveTimers \ {t}
    /\ statusTimer' = {saveNow + STATUS_DELAY}
    /\ saveRet' = [op |-> "saveTimer", email |-> userEmail]
    /\ UNCHANGED <<userEmail, saveClicks, saveNow>>

\* lines 532-534: the callback of the 2000 ms timer
StatusTimerFires ==
    /\ StatusDue # {}
    /\ saveStatus' = "idle"
    /\ statusTimer' = {}
    /\ saveRet' = [op |-> "statusTimer", email |-> userEmail]
    /\ UNCHANGED <<userEmail, isSaved, saveTimers, saveClicks, saveNow>>
    /\ UNCHANGED idVars

\* one tick passes; no timer is left due
SaveTick ==
    /\ saveNow < MaxSaveTime
    /\ SaveDue = {} /\ StatusDue = {}
    /\ saveNow' = saveNow + 1
    /\ UNCHANGED <<userEmail, saveStatus, isSaved, saveTimers, statusTimer, saveClicks, saveRet>>
    /\ UNCHANGED idVars

\* the page as mounted, with no identity or with its first identity on display; the
\* storage holds no entry or the empty list
SaveInit ==
    /\ userEmail \in Emails \cup {NoEmail}
    /\ saveStatus = "idle"
    /\ isSaved = FALSE
    /\ saveTimers = {}
    /\ statusTimer = {}
    /\ saveClicks = 0
    /\ saveNow = 0
    /\ saveRet = [op |-> "none", email |-> NoEmail]

SaveUnused ==
    /\ userEmail = NoEmail
    /\ saveStatus = "idle"
    /\ isSaved = FALSE
    /\ saveTimers = {}
    /\ statusTimer = {}
    /\ saveClicks = 0
    /\ saveNow = 0
    /\ saveRet = [op |-> "none", email |-> NoEmail]

----------------------------------------------------------------------------
(* src/app/page.tsx, DomainList, and the functions of                      *)
(* lib/__tests__/virtualList.test.ts.  Domains are numbered; a query q     *)
(* stands for a search text, 0 for the empty text, and a domain contains   *)
(* the text q when q divides its number.                                   *)

\* the largest number of domains of a list
MaxDomains == 120

\* lines 296, 305, 341: the first batch and every further batch are 50 items
BatchSize == 50

DomainCounts == {0, 30, BatchSize, BatchSize + 20, MaxDomains, 2 * MaxDomains + 20}
EmptyQuery == 0
Queries == {EmptyQuery, 2, 3, 2 * MaxDomains + 21}

Min(a, b) == IF a < b THEN a ELSE b

\* d.toLowerCase().includes(query)
Includes(d, query) == d % query = 0

\* lines 320-324: filteredDomains
filteredDomains ==
    IF filteredQuery = EmptyQuery THEN [i \in 1 .. allDomains |-> i]
    ELSE SelectSeq([i \in 1 .. allDomains |-> i], LAMBDA d : Includes(d, filteredQuery))

\* Array.prototype.slice(0, n)
Slice(s, n) == [i \in {j \in 1 .. Len(s) : j <= n} |-> s[i]]

\* lines 327-329: visibleDomains
visibleDomains == Slice(filteredDomains, visibleCount)

\* lines 417-421: the sentinel that the observer watches is rendered
SentinelRendered == visibleCount < Len(filteredDomains)

\* virtualList.test.ts lines 27-30
calculateRenderedCount(totalItems, visible) == Min(visible, totalItems)

\* virtualList.test.ts lines 36-41
loadMoreItems(currentVisible, totalItems, batchSize) == Min(currentVisible + batchSize, totalItems)

NextVisibleCountUnbounded(prev, length) == prev + BatchSize

\* line 341: setVisibleCount(prev => Math.min(prev + 50, filteredDomains.length))
NextVisibleCount(prev, length) == Min(prev + BatchSize, length)

\* lines 359-367: handleSearchChange / handleClearSearch, and the effect of lines 302-316
\* that the render with the new searchQuery runs: clear the timer, set a new one
SearchChange(q) ==
    /\ q # searchQuery
    /\ searchQuery' = q
    /\ debounceTimer' = {q}
    /\ dlRet' = [op |-> "search", loaded |-> FALSE]
    /\ UNCHANGED <<allDomains, filteredQuery, visibleCount>>

\* lines 306-309: the callback of the debounce timer
DebounceTimerFires ==
    /\ debounceTimer # {}
    /\ filteredQuery' = CHOOSE q \in debounceTimer : TRUE
    /\ visibleCount' = BatchSize
    /\ debounceTimer' = {}
    /\ dlRet' = [op |-> "debounce", loaded |-> FALSE]
    /\ UNCHANGED <<allDomains, searchQuery>>

\* lines 338-343: the callback of the IntersectionObserver, which watches the sentinel
\* of the last render
Intersection(isIntersecting) ==
    /\ SentinelRendered
    /\ LET more == isIntersecting /\ visibleCount < Len(filteredDomains)
       IN /\ visibleCount' = IF more THEN NextVisibleCount(visibleCount, Len(filteredDomains))
                             ELSE visibleCount
          /\ dlRet' = [op |-> "intersection", loaded |-> more]
    /\ UNCHANGED <<allDomains, searchQuery, filteredQuery, debounceTimer>>

\* the component as mounted: the effect of lines 302-316 has set its first timer
DlInit ==
    /\ allDomains \in DomainCounts
    /\ searchQuery = EmptyQuery
    /\ filteredQuery = EmptyQuery
    /\ visibleCount = BatchSize
    /\ debounceTimer = {EmptyQuery}
    /\ dlRet = [op |-> "none", loaded |-> FALSE]

DlUnused ==
    /\ allDomains = 0
    /\ searchQuery = EmptyQuery
    /\ filteredQuery = EmptyQuery
    /\ visibleCount = BatchSize
    /\ debounceTimer = {}
    /\ dlRet = [op |-> "none", loaded |-> FALSE]

----------------------------------------------------------------------------
(* The callers of the flag cache.  A page first loads warmTarget flags one  *)
(* after another (each awaited, as the tests do), optionally after a load   *)
(* of a flag that a clearCache() overtook; then any number of callers call  *)
(* loadFlagIcon and clearCache in any order while loads settle in any order *)

Concurrent == pc = "warm" /\ warmNext > warmTarget

\* the history after a step; a history longer than MaxHist is forgotten
TooLong == <<[op |-> "more", code |-> NoFlagCode, kind |-> "none", promise |-> 0, value |-> Null, evicted |-> {}, state |-> "none"]>>

Remember(keep) ==
    hist' = IF ~keep THEN hist
               ELSE IF hist = TooLong \/ Len(hist) >= MaxHist THEN TooLong
               ELSE Append(hist, ret')

OvertakenCall ==
    /\ pc = "prelude"
    /\ LoadFlagIcon(1)
    /\ Remember(TRUE)
    /\ pc' = "preclear"
    /\ UNCHANGED <<warmTarget, warmNext>>
    /\ UNCHANGED notFlagVars

OvertakingClear ==
    /\ pc = "preclear"
    /\ ClearCache
    /\ Remember(TRUE)
    /\ pc' = "warm"
    /\ UNCHANGED <<warmTarget, warmNext>>
    /\ UNCHANGED notFlagVars

WarmCall ==
    /\ pc = "warm"
    /\ warmNext <= warmTarget
    /\ LoadFlagIcon(warmNext)
    /\ Remember(FALSE)
    /\ pc' = "warming"
    /\ UNCHANGED <<warmTarget, warmNext>>
    /\ UNCHANGED notFlagVars

WarmSettle ==
    /\ pc = "warming"
    /\ warmNext \in DOMAIN loadingPromises
    /\ LoadSettles(loadingPromises[warmNext], TRUE)
    /\ Remember(FALSE)
    /\ pc' = "warm"
    /\ warmNext' = warmNext + 1
    /\ UNCHANGED warmTarget
    /\ UNCHANGED notFlagVars

Call ==
    /\ Concurrent
    /\ \E code \in CallCodes : LoadFlagIcon(code)
    /\ Remember(TRUE)
    /\ UNCHANGED envVars
    /\ UNCHANGED notFlagVars

Settle ==
    /\ Concurrent
    /\ \E id \in LoadIds, imported \in BOOLEAN : LoadSettles(id, imported)
    /\ Remember(TRUE)
    /\ UNCHANGED envVars
    /\ UNCHANGED notFlagVars

Clear ==
    /\ Concurrent
    /\ ClearCache
    /\ Remember(TRUE)
    /\ UNCHANGED envVars
    /\ UNCHANGED notFlagVars

\* the module as loaded: both Maps empty
FlagInit ==
    /\ flagCache = <<>>
    /\ loadingPromises = EmptyMap
    /\ loads = EmptyMap
    /\ ret = NoRet
    /\ touched = <<>>
    /\ warmNext = 1
    /\ hist = <<>>

Init ==
    /\ FlagInit
    /\ pc \in {"prelude", "warm"}
    /\ warmTarget \in WarmTargets
    /\ DebounceUnused
    /\ CallbackUnused
    /\ IpUnused
    /\ BgUnused
    /\ IdUnused
    /\ PreloadUnused
    /\ DlUnused
    /\ SaveUnused

Next ==
    \/ OvertakenCall
    \/ OvertakingClear
    \/ WarmCall
    \/ WarmSettle
    \/ Call
    \/ Settle
    \/ Clear

Spec == Init /\ [][Next]_vars

----------------------------------------------------------------------------
(* The page that warms the cache up: app/page.tsx calls preloadTopFlags()   *)
(* once when the module loads; its FlagIcon components call loadFlagIcon    *)
(* for a top key and for another key, and the cache may be cleared          *)

\* the keys the components ask for: 'US', a top key, and a key outside the top five
PageCodes == {1, Len(TOP_COUNTRIES) + 1}

WarmUp ==
    /\ \E hasIdleCallback \in BOOLEAN : PreloadTopFlags(hasIdleCallback)
    /\ UNCHANGED notPreloadVars

RunWarmUp ==
    /\ PreloadRuns
    /\ UNCHANGED notPreloadVars

\* the components mount before the warm-up has run
PageCall ==
    /\ preload # "ran"
    /\ \E code \in PageCodes : LoadFlagIcon(code)
    /\ UNCHANGED preloadVars
    /\ UNCHANGED notPreloadVars

PageSettle ==
    /\ \E id \in PreloadIds, imported \in BOOLEAN : LoadSettles(id, imported)
    /\ UNCHANGED preloadVars
    /\ UNCHANGED notPreloadVars

PageClear ==
    /\ preload # "ran"
    /\ ClearCache
    /\ UNCHANGED preloadVars
    /\ UNCHANGED notPreloadVars

InitPreload ==
    /\ FlagInit
    /\ pc = "warm"
    /\ warmTarget = 0
    /\ preload = "none"
    /\ DebounceUnused
    /\ CallbackUnused
    /\ IpUnused
    /\ BgUnused
    /\ IdUnused
    /\ DlUnused
    /\ SaveUnused

NextPreload ==
    \/ WarmUp
    \/ RunWarmUp
    \/ PageCall
    \/ PageSettle
    \/ PageClear

SpecPreload == InitPreload /\ [][NextPreload]_vars

----------------------------------------------------------------------------
(* The component that uses a debounce hook: it renders with new values and  *)
(* delays at any time, time passes, timers fire, and it may unmount         *)

Update ==
    /\ \E v \in Values, d \in Delays : Rerender(v, d)
    /\ UNCHANGED notDebounceVars

Fire ==
    /\ \E t \in timers : TimerFires(t)
    /\ UNCHANGED notDebounceVars

Elapse ==
    /\ Tick
    /\ UNCHANGED notDebounceVars

Teardown ==
    /\ Unmount
    /\ UNCHANGED notDebounceVars

InitDebounce ==
    /\ FlagInit
    /\ pc = "warm"
    /\ warmTarget = 0
    /\ DebounceInit
    /\ CallbackUnused
    /\ IpUnused
    /\ BgUnused
    /\ IdUnused
    /\ PreloadUnused
    /\ DlUnused
    /\ SaveUnused

NextDebounce ==
    \/ Update
    \/ Fire
    \/ Elapse
    \/ Teardown

SpecDebounce == InitDebounce /\ [][NextDebounce]_vars

\* the same component while timers fire and time passes: every timer that is due fires,
\* the clock goes on, and the component renders only while the timer it sets can fire
\* before the clock stops
UpdateInTime ==
    /\ \E v \in Values, d \in Delays : now + d <= MaxTime /\ Rerender(v, d)
    /\ UNCHANGED notDebounceVars

NextDebounceLive ==
    \/ UpdateInTime
    \/ Fire
    \/ Elapse
    \/ Teardown

SpecDebounceLive ==
    InitDebounce /\ [][NextDebounceLive]_vars /\ WF_vars(Fire) /\ WF_vars(Elapse)

----------------------------------------------------------------------------
(* The component that uses useDebouncedCallback and the holders of the      *)
(* debounced function                                                       *)

Render ==
    /\ \E cb \in Callbacks, d \in Delays : CbRender(cb, d)
    /\ UNCHANGED notCallbackVars

Invoke ==
    /\ \E args \in Args : DebouncedCall(args)
    /\ UNCHANGED notCallbackVars

FireCallback ==
    /\ \E t \in cbTimers : CbTimerFires(t)
    /\ UNCHANGED notCallbackVars

ElapseCallback ==
    /\ CbTick
    /\ UNCHANGED notCallbackVars

TeardownCallback ==
    /\ CbUnmount
    /\ UNCHANGED notCallbackVars

InitCallback ==
    /\ FlagInit
    /\ pc = "warm"
    /\ warmTarget = 0
    /\ DebounceUnused
    /\ CallbackInit
    /\ IpUnused
    /\ BgUnused
    /\ IdUnused
    /\ PreloadUnused
    /\ DlUnused
    /\ SaveUnused

NextCallback ==
    \/ Render
    \/ Invoke
    \/ FireCallback
    \/ ElapseCallback
    \/ TeardownCallback

SpecCallback == InitCallback /\ [][NextCallback]_vars

----------------------------------------------------------------------------
(* The network, the timer and the page around one IP detection              *)

Respond ==
    /\ \E body \in Bodies : FetchResolves(body)
    /\ UNCHANGED notIpVars

NetworkFails ==
    /\ FetchRejects
    /\ UNCHANGED notIpVars

TimeOut ==
    /\ TimeoutFires
    /\ UNCHANGED notIpVars

Parse ==
    /\ JsonSettles
    /\ UNCHANGED notIpVars

LeavePage ==
    /\ PageUnmounts
    /\ UNCHANGED notIpVars

ElapseIp ==
    /\ IpTick
    /\ UNCHANGED notIpVars

InitIp ==
    /\ FlagInit
    /\ pc = "warm"
    /\ warmTarget = 0
    /\ DebounceUnused
    /\ CallbackUnused
    /\ IpInit
    /\ BgUnused
    /\ IdUnused
    /\ PreloadUnused
    /\ DlUnused
    /\ SaveUnused

NextIp ==
    \/ Respond
    \/ NetworkFails
    \/ TimeOut
    \/ Parse
    \/ LeavePage
    \/ ElapseIp

SpecIp == InitIp /\ [][NextIp]_vars

----------------------------------------------------------------------------
(* The callers of the background cache *)

ReadBackground ==
    /\ GetCachedBackground
    /\ UNCHANGED notBgVars

WriteBackground ==
    /\ \E url \in Urls, stored \in BOOLEAN : SetCachedBackground(url, stored)
    /\ UNCHANGED notBgVars

ClearBackground ==
    /\ ClearBackgroundCache
    /\ UNCHANGED notBgVars

ElapseBackground ==
    /\ BgTick
    /\ UNCHANGED notBgVars

InitBackground ==
    /\ FlagInit
    /\ pc = "warm"
    /\ warmTarget = 0
    /\ DebounceUnused
    /\ CallbackUnused
    /\ IpUnused
    /\ BgInit
    /\ IdUnused
    /\ PreloadUnused
    /\ DlUnused
    /\ SaveUnused

NextBackground ==
    \/ ReadBackground
    \/ WriteBackground
    \/ ClearBackground
    \/ ElapseBackground

SpecBackground == InitBackground /\ [][NextBackground]_vars

\* isCacheValid applied to any record at any time
CheckValid ==
    /\ \E cache \in CheckCaches, t \in CheckNows : IsCacheValidCalled(cache, t)
    /\ UNCHANGED notBgVars

InitValid ==
    /\ FlagInit
    /\ pc = "warm"
    /\ warmTarget = 0
    /\ DebounceUnused
    /\ CallbackUnused
    /\ IpUnused
    /\ BgUnused
    /\ IdUnused
    /\ PreloadUnused
    /\ DlUnused
    /\ SaveUnused

NextValid == CheckValid

SpecValid == InitValid /\ [][NextValid]_vars

----------------------------------------------------------------------------
(* The pages that use the saved identities *)

ListIdentities ==
    /\ GetSavedIdentities
    /\ UNCHANGED notIdVars

Add ==
    /\ \E email \in Emails, stored \in BOOLEAN : AddIdentity(email, stored)
    /\ UNCHANGED notIdVars

Remove ==
    /\ \E id \in 1 .. MaxIds, stored \in BOOLEAN : RemoveIdentity(id, stored)
    /\ UNCHANGED notIdVars

CheckSaved ==
    /\ \E email \in Emails : IsIdentitySaved(email)
    /\ UNCHANGED notIdVars

ClearAll ==
    /\ ClearAllIdentities
    /\ UNCHANGED notIdVars

InitIdentities ==
    /\ FlagInit
    /\ pc = "warm"
    /\ warmTarget = 0
    /\ DebounceUnused
    /\ CallbackUnused
    /\ IpUnused
    /\ BgUnused
    /\ IdInit
    /\ PreloadUnused
    /\ DlUnused
    /\ SaveUnused

NextIdentities ==
    \/ ListIdentities
    \/ Add
    \/ Remove
    \/ CheckSaved
    \/ ClearAll

SpecIdentities == InitIdentities /\ [][NextIdentities]_vars

----------------------------------------------------------------------------
(* The user of the domain sheet: types into the search box, scrolls         *)

Type ==
    /\ \E q \in Queries : SearchChange(q)
    /\ UNCHANGED notDlVars

CommitQuery ==
    /\ DebounceTimerFires
    /\ UNCHANGED notDlVars

Scroll ==
    /\ \E isIntersecting \in BOOLEAN : Intersection(isIntersecting)
    /\ UNCHANGED notDlVars

InitDomainList ==
    /\ FlagInit
    /\ pc = "warm"
    /\ warmTarget = 0
    /\ DlInit
    /\ DebounceUnused
    /\ CallbackUnused
    /\ IpUnused
    /\ BgUnused
    /\ IdUnused
    /\ PreloadUnused
    /\ SaveUnused

NextDomainList ==
    \/ Type
    \/ CommitQuery
    \/ Scroll

SpecDomainList == InitDomainList /\ [][NextDomainList]_vars

----------------------------------------------------------------------------
----------------------------------------------------------------------------
(* The user of the main page: generates identities, changes the country,    *)
(* clicks the save button; timers fire and time passes                      *)

ClickGenerate ==
    /\ \E email \in Emails : Generate(email)
    /\ UNCHANGED notSaveVars

ClickSave ==
    /\ HandleSaveIdentity
    /\ UNCHANGED notSaveVars

\* localStorage accepts the write
FireSave ==
    /\ \E t \in saveTimers : SaveTimerFires(t, TRUE)
    /\ UNCHANGED notSaveVars

FireStatus ==
    /\ StatusTimerFires
    /\ UNCHANGED notSaveVars

ElapseSave ==
    /\ SaveTick
    /\ UNCHANGED notSaveVars

InitSave ==
    /\ FlagInit
    /\ pc = "warm"
    /\ warmTarget = 0
    /\ DebounceUnused
    /\ CallbackUnused
    /\ IpUnused
    /\ BgUnused
    /\ saved \in {NoEntry, SavedList(<<>>)}
    /\ nextId = 0
    /\ idRet = NoIdRet
    /\ PreloadUnused
    /\ DlUnused
    /\ SaveInit

NextSave ==
    \/ ClickGenerate
    \/ ClickSave
    \/ FireSave
    \/ FireStatus
    \/ ElapseSave

SpecSave == InitSave /\ [][NextSave]_vars

----------------------------------------------------------------------------
(* Properties of the flag cache, checked under Spec *)

InFlightFor(code) == {id \in DOMAIN loads : loads[id] = code}

\* the step just taken was a loadFlagIcon call, a settling load, a settling load that evicted
CallStep == ret'.op = "loadFlagIcon"
SettleStep == ret'.op = "settle"
Unforgotten == hist # TooLong

\* C1: at every moment at most one dynamic import is unsettled for any country code,
\* under any interleaving of loadFlagIcon calls, settling loads and clearCache calls.
C1_AtMostOneLoadPerCode ==
    \A code \in Codes : Cardinality(InFlightFor(code)) <= 1

C3_Scenario ==
    (warmTarget = MAX_CACHE_SIZE + 1 /\ Concurrent /\ hist = <<>>)
        => getCachedCodes = [i \in 1 .. MAX_CACHE_SIZE |-> i + 1]

\* C3 (step): a successful load of a code that is not cached, into a cache of exactly 30
\* entries, removes exactly the least recently touched entry and appends the new code
C3_Step ==
    (SettleStep /\ ret'.kind = "component" /\ ~isCached(ret'.code)
        /\ getCacheSize = MAX_CACHE_SIZE)
        => /\ ret'.evicted = {Head(touched)}
           /\ getCachedCodes' = Append(Tail(getCachedCodes), ret'.code)
           /\ getCacheSize' = MAX_CACHE_SIZE

\* C3: when a load for a key that is not cached succeeds while the cache holds exactly 30
\* entries, exactly one entry is removed, namely the least recently touched one, and the
\* new key is inserted as most recently used; loading k1..k31 in a row leaves k2..k31.
C3_EvictsLeastRecentlyTouched == [][C3_Step]_vars /\ []C3_Scenario

\* C4 (scenario): after k1..k31 were loaded in a row, a request of k2 and the load of
\* k32 leave k2 cached and k3 evicted
C4_ScenarioRan ==
    /\ warmTarget = MAX_CACHE_SIZE + 1
    /\ Unforgotten /\ Len(hist) = 3
    /\ hist[1].kind = "hit" /\ hist[1].code = 2
    /\ hist[2].kind = "started" /\ hist[2].code = MAX_CACHE_SIZE + 2
    /\ hist[3].kind = "component" /\ hist[3].code = MAX_CACHE_SIZE + 2

C4_Scenario ==
    C4_ScenarioRan =>
        getCachedCodes = [i \in 1 .. MAX_CACHE_SIZE |->
                            IF i <= MAX_CACHE_SIZE - 2 THEN i + 3
                            ELSE IF i = MAX_CACHE_SIZE - 1 THEN 2 ELSE MAX_CACHE_SIZE + 2]

\* C4 (protection): when an eviction is the first one after a hit on k (no clear in
\* between), k is still cached after it
C4_Protected ==
    (Unforgotten /\ Len(hist) >= 2 /\ hist[Len(hist)].evicted # {}) =>
        \A i \in 1 .. (Len(hist) - 1) :
            (/\ hist[i].kind = "hit"
             /\ \A j \in (i + 1) .. (Len(hist) - 1) :
                    hist[j].op # "clearCache" /\ hist[j].evicted = {})
            => /\ isCached(hist[i].code)
               /\ hist[i].code \notin hist[Len(hist)].evicted

\* C4 (step): a hit moves the code to the end of the Map order within the call, and
\* leaves the other entries in their order
C4_HitStep ==
    (CallStep /\ ret'.kind = "hit")
        => getCachedCodes' = Append(CodesWithout(getCachedCodes, ret'.code), ret'.code)

\* C4: a cache hit on k moves k to the most-recently-used position in the same step as
\* the call, so the next eviction removes another entry and k stays cached; after
\* k1..k31, a request of k2 and the load of k32 evict k3 and keep k2.
C4_HitProtectsFromEviction ==
    [][C4_HitStep]_vars /\ [](C4_Scenario /\ C4_Protected)

C4_Witness == C4_ScenarioRan /\ isCached(2) /\ ~isCached(3)

\* C5 (step): a call for a cached code is a hit that returns the cached component,
\* starts no load and leaves the size of the cache as it was
C5_Step ==
    (CallStep /\ isCached(ret'.code))
        => /\ ret'.kind = "hit"
           /\ ret'.value = MapGet(flagCache, ret'.code)
           /\ loads' = loads
           /\ loadingPromises' = loadingPromises
           /\ getCacheSize' = getCacheSize

\* C5 (history): a call for a code after a load of it resolved to a component, with no
\* eviction of the code and no clear in between, returns that same component
C5_SameComponent ==
    Unforgotten =>
        \A i \in 1 .. Len(hist), j \in 1 .. Len(hist) :
            (/\ i < j
             /\ hist[i].kind = "component"
             /\ hist[j].op = "loadFlagIcon" /\ hist[j].code = hist[i].code
             /\ \A m \in (i + 1) .. (j - 1) :
                    hist[m].op # "clearCache" /\ hist[i].code \notin hist[m].evicted)
            => hist[j].kind = "hit" /\ hist[j].value = hist[i].value

\* C5: once loadFlagIcon(k) has resolved to a component and k was neither evicted nor
\* cleared, the next loadFlagIcon(k) returns the identical component, starts no new
\* load and leaves the cache size unchanged.
C5_CacheHit == [][C5_Step]_vars /\ []C5_SameComponent

C5_Witness ==
    /\ Unforgotten /\ Len(hist) = 3
    /\ hist[2].kind = "component"
    /\ hist[3].kind = "hit" /\ hist[3].code = hist[2].code
    /\ hist[3].value = hist[2].value

\* C6: every loadFlagIcon(k) call made while a load for k is unsettled returns the
\* promise of that load and starts no load of its own.
C6_Step ==
    (CallStep /\ InFlightFor(ret'.code) # {})
        => /\ ret'.kind = "pending"
           /\ ret'.promise \in InFlightFor(ret'.code)
           /\ loads' = loads

C6_CallersShareThePendingLoad == [][C6_Step]_vars

\* C7: a load that fails (the import throws, or the module has no function component
\* for the code) resolves to null, never rejects, and leaves the cache as it was.
C7_Step ==
    (SettleStep /\ ret'.kind \in {"missing", "threw"})
        => /\ ret'.state = "fulfilled"
           /\ ret'.value = Null
           /\ flagCache' = flagCache

C7_FailedLoadResolvesNull ==
    [][C7_Step]_vars /\ [](ret.op = "settle" => ret.state = "fulfilled")

\* a throwing import has just settled on a full cache
C7_Witness == ret.kind = "threw" /\ getCacheSize = MAX_CACHE_SIZE

\* C8: every load that settles, whatever its outcome, removes its code from the
\* pending table; when no load is in flight the pending table is empty.
C8_SettledLoadLeavesPendingTable ==
    /\ ret.op = "settle" => ret.code \notin DOMAIN loadingPromises
    /\ DOMAIN loads = {} => DOMAIN loadingPromises = {}

\* a throwing import was the last load in flight
C8_Witness == ret.kind = "threw" /\ DOMAIN loads = {}

\* C9: right after clearCache() the cache and the pending table are empty:
\* getCacheSize() is 0, isCached(k) is false for every k, getCachedCodes() is empty.
C9_ClearEmptiesBoth ==
    ret.op = "clearCache" =>
        /\ getCacheSize = 0
        /\ \A code \in Codes : ~isCached(code)
        /\ getCachedCodes = <<>>
        /\ DOMAIN loadingPromises = {}

\* clearCache() was called on a warmed cache while a load was pending
C9_Witness ==
    /\ ret.op = "clearCache"
    /\ warmTarget = MAX_CACHE_SIZE - 1
    /\ Unforgotten /\ Len(hist) = 2 /\ hist[1].kind = "started"
    /\ DOMAIN loads # {}

----------------------------------------------------------------------------
(* Properties of the debounce hooks, checked under SpecDebounce *)

\* the last update is less than `delay` old: the burst it belongs to is not over
BurstRuns == mounted /\ now < lastUpdate + delay

\* the last update is `delay` old or older and every timer that was due has fired
BurstOver == mounted /\ now >= lastUpdate + delay /\ Due = {}

\* C10: in a burst of updates, each less than `delay` after the one before, no
\* intermediate value is exposed: debouncedValue stays at the value committed before
\* the burst, and changes once, to the last value of the burst, `delay` after the last
\* update (useDebounce and useDebounceWithPending).
C10_OnlyLastValueCommitted ==
    /\ BurstRuns =>
        /\ debouncedValue = base
        /\ changes = 0
        /\ firedAt = {}
    /\ BurstOver =>
        /\ debouncedValue = value
        /\ firedAt = {lastUpdate + delay}
        /\ changes = (IF value # base THEN 1 ELSE 0)

\* a burst of three or more updates of useDebounceWithPending has been committed
C10_Witness ==
    /\ hook = "useDebounceWithPending"
    /\ BurstOver
    /\ burst = 3
    /\ value # base
    /\ debouncedValue = value
    /\ changes = 1

UpdateStep == value' # value \/ delay' # delay

\* C11: every new value or delay cancels the pending timer and starts a fresh one, due
\* `delay` after the update, so at most one timer is pending per hook instance, and
\* debouncedValue changes only when the input has been unchanged for the full delay
\* since its last update.
C11_UpdateRestartsTheTimer ==
    /\ [][/\ UpdateStep =>
               \E t \in timers' : /\ timers' = {t}
                                  /\ t.due = now + delay'
                                  /\ t.val = value'
          /\ debouncedValue' # debouncedValue =>
               /\ now >= lastUpdate + delay
               /\ debouncedValue' = value]_vars
    /\ [](Cardinality(timers) <= 1)

\* an update made one tick into a delay of two ticks postponed the commit, which came
\* two ticks after that update
C11_Witness ==
    /\ hook = "useDebounce"
    /\ mounted
    /\ delay = 2
    /\ burst = 2
    /\ lastUpdate = 1
    /\ changes = 1
    /\ firedAt = {3}
    /\ debouncedValue = value
    /\ value # base

\* a timer callback ran
FireStep == now' = now /\ ~UpdateStep /\ mounted' = mounted /\ timers' # timers

\* C13: in useDebounceWithPending isPending is false initially, is true as soon as the
\* input differs from the committed value, stays true until the timer fires, and once
\* the timer has fired isPending is false and debouncedValue is the latest input.
C13_PendingUntilTheTimerFires ==
    /\ (hook = "useDebounceWithPending" => ~isPending)
    /\ [][hook = "useDebounceWithPending" /\ mounted' =>
            /\ value' # debouncedValue' => isPending'
            /\ isPending /\ ~isPending' => FireStep
            /\ FireStep => ~isPending' /\ debouncedValue' = value']_vars

\* the flag was raised by an update and the timer has cleared it
C13_Witness ==
    /\ hook = "useDebounceWithPending"
    /\ mounted
    /\ burst = 1
    /\ lastUpdate > 0
    /\ changes = 1
    /\ ~isPending
    /\ debouncedValue = value

\* C27: while a useDebounce or useDebounceWithPending instance is mounted and the latest
\* input differs from the committed value, a timer that will commit the latest input is
\* pending; and when the input stays the same, the committed value eventually equals it
\* (timers fire, time passes).
C27_NeverStuckWithAStaleValue ==
    /\ []((mounted /\ value # debouncedValue) =>
            \E t \in timers : t.val = value /\ t.id = timerRef)
    /\ \A v \in Values :
          (mounted /\ value = v /\ debouncedValue # v)
              ~> (debouncedValue = v \/ value # v \/ ~mounted)

\* a stale value was replaced: after two updates in a row the last input is committed
C27_Witness ==
    /\ mounted
    /\ burst = 2
    /\ value # base
    /\ changes = 1
    /\ debouncedValue = value
    /\ Due = {}
    /\ lastUpdate > 0

\* C28: after a call of the debounced function nothing reaches the wrapped callback until
\* `delay` has passed since the last call, so no earlier call of a burst is delivered; then
\* the callback is invoked exactly once, `delay` after the last call, with the arguments of
\* the last call, and the function invoked is the callback of the most recent render.
C28_OnlyTheLastCallIsDelivered ==
    /\ []((calls > 0 /\ cbNow < lastCall + lastDelay) => invoked = <<>>)
    /\ []((calls > 0 /\ cbMounted /\ cbNow >= lastCall + lastDelay /\ CbDue = {}) =>
            /\ Len(invoked) = 1
            /\ invoked[1].at = lastCall + lastDelay
            /\ invoked[1].args = lastArgs)
    /\ [](Len(invoked) <= 1 /\ Cardinality(cbTimers) <= 1)
    /\ [][Len(invoked') > Len(invoked) => invoked'[Len(invoked')].callback = callbackRef']_vars

\* a burst of three or more calls has been delivered, once
C28_Witness ==
    /\ cbMounted
    /\ calls = 3
    /\ lastCall > 1
    /\ Len(invoked) = 1
    /\ invoked[1].at = lastCall + lastDelay
    /\ invoked[1].args = lastArgs
    /\ cbTimers = {}

\* C12: after a debounce hook instance is unmounted, no debounced value is committed
\* (useDebounce, useDebounceWithPending) and the wrapped callback is never invoked
\* (useDebouncedCallback).
C12_NothingAfterTeardown ==
    /\ [][~mounted => debouncedValue' = debouncedValue]_vars
    /\ [](~lateInvoked)

----------------------------------------------------------------------------
(* Claims about the IP detection *)

DefaultIpInfo == [ip |-> DEFAULT_IP, country |-> DEFAULT_COUNTRY]

\* the lookup rejected, timed out, gave a body that does not parse, or a payload
\* without ip or without country
FailedLookup ==
    \/ outcome \in {"rejected", "timeout", "unparsable", "null"}
    \/ outcome = "data" /\ (Falsy(response.ip) \/ Falsy(response.country))

\* C14: a lookup that rejects, times out, does not parse or lacks ip or country ends
\* with the default country 'US' and the default sentinel ip, flagged as default.
C14_FailedLookupGivesDefaults ==
    ipPc = "done" /\ FailedLookup =>
        /\ ipImpl = "detectIp" => result = Fallback
        /\ ipImpl = "initializeApp" /\ isInitialized => ipInfo = DefaultIpInfo

\* C15: the detection has settled, and the mounted page is initialized, no later than
\* the timeout.
C15_SettledByTheTimeout ==
    ipNow > TIMEOUT_MS =>
        /\ ipPc = "done"
        /\ settledAt \subseteq 0 .. TIMEOUT_MS
        /\ ipImpl = "initializeApp" /\ isMounted => isInitialized

\* C16: when the timeout wins the race the fallback result is final: the request is
\* not cancelled, and a response that arrives later changes neither the reported ip
\* and country, nor the default flag, nor the selected country.
C16_FallbackIsFinal ==
    /\ [][/\ outcome' = "timeout" /\ outcome # "timeout" => fetchState' = fetchState
          /\ outcome = "timeout" =>
                UNCHANGED <<result, ipInfo, selectedCountry, isInitialized, outcome>>]_vars
    /\ [](outcome = "timeout" =>
            /\ ipImpl = "detectIp" => result = Fallback
            /\ ipImpl = "initializeApp" =>
                /\ selectedCountry = "US"
                /\ isInitialized => ipInfo = DefaultIpInfo)

\* the timeout won, then the response came with an accurate country
C16_Witness ==
    /\ ipImpl = "initializeApp"
    /\ outcome = "timeout"
    /\ isInitialized
    /\ fetchState = "resolved"
    /\ response.kind = "data"
    /\ response.country = "CN"
    /\ response.accurate
    /\ ipInfo = DefaultIpInfo
    /\ selectedCountry = "US"

\* C17: a well-formed response that wins the race and carries a non-empty ip and
\* country is returned as observed and marked as non-default.
C17_ObservedValuesReturned ==
    outcome = "data" /\ ~Falsy(response.ip) /\ ~Falsy(response.country) =>
        /\ ipImpl = "detectIp" =>
            result = [ip |-> response.ip, country |-> response.country,
                      isDefault |-> FALSE, settled |-> TRUE]
        /\ ipImpl = "initializeApp" /\ isInitialized =>
            ipInfo = [ip |-> response.ip, country |-> response.country]

C17_Witness ==
    /\ ipImpl = "detectIp"
    /\ outcome = "data"
    /\ settledAt \subseteq 0 .. (TIMEOUT_MS - 1)
    /\ result.settled
    /\ result.ip = "1.2.3.4"
    /\ result.country = "CN"
    /\ ~result.isDefault

----------------------------------------------------------------------------
(* Claims about the background cache *)

\* a step of getCachedBackground()
GetStep == bgNow' = bgNow /\ bgRet'.op = "get"

ValidRecord(s, t) ==
    s.kind = "record" /\ s.version = BG_CACHE_VERSION /\ t - s.timestamp < BG_EXPIRE_TIME

\* C18: whenever the storage holds anything other than a valid record (text that does
\* not parse, a record of another version, a record of age >= 24 h),
\* getCachedBackground() returns null and the storage entry is absent afterwards.
C18_InvalidEntryIsPurged ==
    [][GetStep /\ storage # Absent /\ ~ValidRecord(storage, bgNow) =>
          /\ bgRet'.value = NullUrl
          /\ storage' = Absent]_vars

\* C19: when the storage holds a parseable record of version 'v1' and of age < 24 h,
\* getCachedBackground() returns its url and leaves the record, timestamp included,
\* unchanged; a record written at T is returned by every read before T + 24 h and by
\* no read at or after T + 24 h.
C19_ValidRecordIsReturnedUntouched ==
    [][GetStep =>
          IF storage.kind = "record" /\ storage.version = BG_CACHE_VERSION
             /\ bgNow < storage.timestamp + BG_EXPIRE_TIME
          THEN bgRet'.value = storage.url /\ storage' = storage
          ELSE bgRet'.value = NullUrl /\ storage'.kind # "record"]_vars

\* a record written at hour 1 was read at hour 24, 23 hours later
C19_Witness ==
    /\ bgRet.op = "get"
    /\ storage.kind = "record"
    /\ storage.timestamp = 1
    /\ bgNow = 1 + BG_EXPIRE_TIME - 1
    /\ bgRet.value = storage.url

\* C20: isCacheValid(record, now) is true exactly when record is not null, its version
\* is 'v1' and now - record.timestamp < 24 h: false at age exactly 24 h, true for a
\* negative age.
C20_ValidIffFreshAndCurrent ==
    validCheck.done =>
        /\ validCheck.valid <=>
              /\ validCheck.cache # NullText
              /\ validCheck.cache.version = "v1"
              /\ validCheck.now - validCheck.cache.timestamp < 24
        /\ validCheck.now - validCheck.cache.timestamp = 24 => ~validCheck.valid
        /\ validCheck.cache.version = "v1" /\ validCheck.now < validCheck.cache.timestamp
              => validCheck.valid

\* a record of the current version checked at age exactly 24 h, and found invalid
C20_Witness ==
    /\ validCheck.done
    /\ validCheck.cache.kind = "record"
    /\ validCheck.cache.version = "v1"
    /\ validCheck.now - validCheck.cache.timestamp = 24
    /\ ~validCheck.valid

\* a step of setCachedBackground()
SetStep == bgNow' = bgNow /\ bgRet'.op = "set"

\* C21: setCachedBackground(u) followed by getCachedBackground() less than 24 h later
\* returns u, whatever was stored before the write; the write stamps the record with
\* the write time and the current version.
C21_LastWriteWins ==
    /\ [][SetStep /\ written'.ok =>
            storage' = [kind |-> "record", url |-> written'.url, timestamp |-> bgNow,
                        version |-> "v1"]]_vars
    /\ [][GetStep /\ written.ok /\ bgNow - written.at < 24 =>
            bgRet'.value = written.url]_vars

\* an expired record was overwritten and the new url read 23 hours later
C21_Witness ==
    /\ bgRet.op = "get"
    /\ written.ok
    /\ written.over = "invalid"
    /\ bgNow = written.at + 23
    /\ bgRet.value = written.url

----------------------------------------------------------------------------
(* Claims about the saved identities *)

\* C23: whatever is found under the storage key (nothing, unparsable text, JSON that
\* is not a list of identities), getSavedIdentities, addIdentity, removeIdentity and
\* isIdentitySaved take it for the empty list and complete without throwing.
C23_CorruptContentIsEmpty ==
    [][saved.kind # "list" /\ idRet'.op \in {"get", "add", "remove", "isSaved"} =>
          /\ ~idRet'.threw
          /\ idRet'.op = "get" => idRet'.list = <<>>
          /\ idRet'.op = "isSaved" => ~idRet'.found
          /\ idRet'.op = "add" /\ saved' # saved => saved' = SavedList(idRet'.list)
          /\ idRet'.op = "remove" /\ saved' # saved => saved' = SavedList(<<>>)]_vars

\* the step just taken was the call of preloadTopFlags, the deferred warm-up, a load that failed
WarmUpCalled == preload = "none" /\ preload' # "none"
WarmUpRan == preload # "ran" /\ preload' = "ran"
LoadFailed == ret'.op = "settle" /\ ret'.kind = "threw"

\* C24: preloadTopFlags() starts no load synchronously; the deferred step asks for each
\* of the five top keys through loadFlagIcon, so that afterwards every top key is cached
\* or has a stored promise and no key with an unsettled import got a second one; a load
\* that fails resolves (to null), rejects nothing and leaves the cache unchanged.
C24_WarmUpIsDeferredAndCoalesces ==
    [][/\ WarmUpCalled => /\ preload' \in {"requestIdleCallback", "setTimeout"}
                          /\ UNCHANGED <<flagCache, loadingPromises, loads>>
       /\ WarmUpRan => \A i \in 1 .. Len(TOP_COUNTRIES) :
                          LET code == TOP_COUNTRIES[i] IN
                          /\ isCached(code)' \/ code \in DOMAIN loadingPromises'
                          /\ InFlightFor(code) # {} =>
                                {id \in DOMAIN loads' : loads'[id] = code} = InFlightFor(code)
       /\ LoadFailed => /\ ret'.state = "fulfilled"
                        /\ ret'.value = Null
                        /\ flagCache' = flagCache]_vars

\* C25: the order of getCachedCodes() is the order of the cached keys by the time of their
\* last touch (hit or insertion), oldest first, after any sequence of hits, successful
\* loads and clears; and every entry that an eviction removes is the one touched longest ago.
C25_OrderIsLastTouchOrder ==
    [][ret'.evicted # {} => ret'.evicted = {Head(touched)}]_vars /\ [](getCachedCodes = touched)

\* a load that loadFlagIcon started after the i-th remembered step has stored its component
CompletedSince(i) ==
    \E k \in (i + 1) .. Len(hist), j \in (i + 1) .. Len(hist) :
        /\ k < j
        /\ hist[k].kind = "started"
        /\ hist[j].op = "settle" /\ hist[j].kind = "component"
        /\ hist[j].promise = hist[k].promise

\* C26: once clearCache() has returned the cache stays empty until a load that a
\* loadFlagIcon call started after the clear completes successfully; a load started
\* before the clear stores nothing after it.
C26_ClearedCacheStaysEmpty ==
    Unforgotten =>
        \A i \in 1 .. Len(hist) :
            (hist[i].op = "clearCache" /\ ~CompletedSince(i)) => flagCache = <<>>

\* the step just taken was a load-more step of the domain list
LoadMoreStep == dlRet'.op = "intersection" /\ dlRet'.loaded

----------------------------------------------------------------------------
(* Claims about the save button of the main page, checked under SpecSave *)

\* the step just taken was the callback of a 300 ms save timer
SaveTimerStep == saveRet'.op = "saveTimer"

\* C30: the saved indicator (isSaved, or saveStatus = 'saved') is shown only while an
\* identity with the displayed email is in the saved list; the identity that a save
\* timer stores is the one on display when the timer fires; and the number of
\* identities stored never exceeds the number of save clicks.
C30_IndicatorMatchesTheSavedList ==
    /\ []((isSaved \/ saveStatus = "saved") =>
            Some(getSavedIdentities(saved).list, userEmail))
    /\ [][SaveTimerStep =>
            /\ idRet'.op = "add"
            /\ \A i \in 1 .. Len(idRet'.list) : idRet'.list[i].email = userEmail']_vars
    /\ [](nextId <= saveClicks)

====
